---------------------------- MODULE Spec2Model ----------------------------
(***************************************************************************)
(* Papaya Network Protocol client (pnp-client-ts).                         *)
(*                                                                         *)
(* The repository holds two generations of the client:                     *)
(*   src/unnamed/part_000      class PNP        (random IV per message,    *)
(*                                               debug flag)               *)
(*   src/src/PapayaClient.ts   class PNPClient  (IV fixed at construction) *)
(* The variable impl says which of the two classes was constructed.        *)
(*                                                                         *)
(* Strings are sequences of code points, Buffers are sequences of bytes.   *)
(***************************************************************************)
EXTENDS Integers, Sequences, FiniteSets, TLC

\* ------------------------------------------------------------------------
\* Bounds of the model
\* ------------------------------------------------------------------------
MaxPlainLen == 2      \* plaintexts of every length 0..MaxPlainLen are drawn
MaxCalls    == 2      \* sendRequest() calls on the client
MaxConnects == 2      \* connect() calls on the client
PairCalls    == 1     \* sendRequest() calls on each of two clients side by side
PairConnects == 1     \* connect() calls on each of two clients side by side
NumKeys     == 2      \* keys randomBytes(32) may return in the model
NumIvs      == 2      \* IVs randomBytes(16) may return in the model

\* ------------------------------------------------------------------------
\* Program constants
\* ------------------------------------------------------------------------
KeyLen    == 32       \* crypto.randomBytes(32)
IvLen     == 16       \* crypto.randomBytes(16)
BlockSize == 16       \* block size of "aes-256-cbc"

\* Code points used by the wire format and the documents
ChColon  == 58        \* ':'
ChZero   == 48        \* '0'
ChLowerA == 97        \* 'a'
ChUpperA == 65        \* 'A'
ChReplacement == 65533  \* U+FFFD, what toString() yields for invalid UTF-8

\* ------------------------------------------------------------------------
\* Sequences
\* ------------------------------------------------------------------------
\* The concatenation ss[lo] \o ... \o ss[hi] (by halves: strings are long)
RECURSIVE FlattenRange(_, _, _)
FlattenRange(ss, lo, hi) ==
  IF lo > hi THEN <<>>
  ELSE IF lo = hi THEN ss[lo]
  ELSE LET mid == (lo + hi) \div 2
       IN FlattenRange(ss, lo, mid) \o FlattenRange(ss, mid + 1, hi)

Flatten(ss) == FlattenRange(ss, 1, Len(ss))

Min(S) == CHOOSE m \in S : \A x \in S : m <= x

Take(s, n) == [i \in 1..n |-> s[i]]
Drop(s, n) == [i \in 1..(Len(s) - n) |-> s[i + n]]

\* All sequences over S of length 0..n
SeqsUpTo(S, n) == UNION {[1..k -> S] : k \in 0..n}

\* ------------------------------------------------------------------------
\* UTF-8 (Buffer.from(str, "utf8"), buf.toString("utf8")), code points up to
\* U+FFFF
\* ------------------------------------------------------------------------
Utf8EncodeChar(c) ==
  IF c < 128 THEN <<c>>
  ELSE IF c < 2048 THEN <<192 + (c \div 64), 128 + (c % 64)>>
  ELSE <<224 + (c \div 4096), 128 + ((c \div 64) % 64), 128 + (c % 64)>>

Utf8Encode(str) == Flatten([i \in 1..Len(str) |-> Utf8EncodeChar(str[i])])

IsCont(b) == b >= 128 /\ b < 192

\* The number of bytes of the well-formed sequence that starts at byte i
\* (0 when none does)
Utf8Width(bytes, i) ==
  LET b == bytes[i] IN
    IF b < 128 THEN 1
    ELSE IF b >= 194 /\ b < 224 /\ i + 1 <= Len(bytes) /\ IsCont(bytes[i + 1]) THEN 2
    ELSE IF b >= 224 /\ b < 240 /\ i + 2 <= Len(bytes)
            /\ IsCont(bytes[i + 1]) /\ IsCont(bytes[i + 2])
            /\ (b - 224) * 4096 + (bytes[i + 1] - 128) * 64 >= 2048 THEN 3
    ELSE 0

\* A continuation byte is part of the sequence a lead byte one or two places
\* before it starts; every other byte starts a character (a lead byte is
\* never a continuation byte)
Utf8Consumed(bytes, i) ==
  /\ IsCont(bytes[i])
  /\ \/ i > 1 /\ Utf8Width(bytes, i - 1) >= 2
     \/ i > 2 /\ Utf8Width(bytes, i - 2) = 3

\* What byte i contributes to the decoded text: its character, U+FFFD when
\* the sequence is ill-formed (decoding resumes at the next byte), nothing
\* when it is inside a sequence
Utf8CharAt(bytes, i) ==
  LET b == bytes[i]
      w == Utf8Width(bytes, i)
  IN IF Utf8Consumed(bytes, i) THEN <<>>
     ELSE IF w = 1 THEN <<b>>
     ELSE IF w = 2 THEN <<(b - 192) * 64 + (bytes[i + 1] - 128)>>
     ELSE IF w = 3
       THEN <<(b - 224) * 4096 + (bytes[i + 1] - 128) * 64 + (bytes[i + 2] - 128)>>
     ELSE <<ChReplacement>>

Utf8Decode(bytes) == Flatten([i \in 1..Len(bytes) |-> Utf8CharAt(bytes, i)])

\* ------------------------------------------------------------------------
\* Hexadecimal (buf.toString("hex"), Buffer.from(str, "hex"))
\* ------------------------------------------------------------------------
HexDigit(n) == IF n < 10 THEN ChZero + n ELSE ChLowerA + (n - 10)

HexEncode(bytes) ==
  [p \in 1..(2 * Len(bytes)) |->
     IF p % 2 = 1 THEN HexDigit(bytes[(p + 1) \div 2] \div 16)
     ELSE HexDigit(bytes[p \div 2] % 16)]

IsHexChar(c) ==
  \/ c >= ChZero /\ c <= ChZero + 9
  \/ c >= ChLowerA /\ c <= ChLowerA + 5
  \/ c >= ChUpperA /\ c <= ChUpperA + 5

HexValue(c) ==
  IF c <= ChZero + 9 THEN c - ChZero
  ELSE IF c >= ChLowerA THEN c - ChLowerA + 10
  ELSE c - ChUpperA + 10

\* Buffer.from(str, "hex") never throws: it decodes pairs of hex digits and
\* stops at the first pair that is not two hex digits; a trailing single
\* character is dropped.
HexDecode(str) ==
  LET pairs == Len(str) \div 2
      bad   == {j \in 1..pairs : ~(IsHexChar(str[2 * j - 1]) /\ IsHexChar(str[2 * j]))}
      n     == IF bad = {} THEN pairs ELSE Min(bad) - 1
  IN [j \in 1..n |-> 16 * HexValue(str[2 * j - 1]) + HexValue(str[2 * j])]

\* ------------------------------------------------------------------------
\* The block cipher in CBC mode with PKCS#7 padding (crypto.createCipheriv,
\* crypto.createDecipheriv with "aes-256-cbc").  AES is modelled by a keyed
\* permutation of 16-byte blocks; chaining and padding are those of CBC.
\* ------------------------------------------------------------------------
RECURSIVE Xor(_, _)
Xor(a, b) ==
  IF a = 0 THEN b
  ELSE IF b = 0 THEN a
  ELSE ((a + b) % 2) + 2 * Xor(a \div 2, b \div 2)

XorBlock(x, y) == [i \in 1..BlockSize |-> Xor(x[i], y[i])]

Rot(i) == (i % BlockSize) + 1

BlockEncrypt(k, blk) ==
  [i \in 1..BlockSize |-> (blk[Rot(i)] + k[i] + k[i + BlockSize]) % 256]

BlockDecrypt(k, blk) ==
  LET Src(j) == ((j + BlockSize - 2) % BlockSize) + 1   \* Rot(Src(j)) = j
  IN [j \in 1..BlockSize |->
        (blk[Src(j)] + 512 - k[Src(j)] - k[Src(j) + BlockSize]) % 256]

Pad(bytes) ==
  LET n == BlockSize - (Len(bytes) % BlockSize)
  IN bytes \o [i \in 1..n |-> n]

RECURSIVE CbcEncrypt(_, _, _)
CbcEncrypt(k, prev, padded) ==
  IF padded = <<>> THEN <<>>
  ELSE LET c == BlockEncrypt(k, XorBlock(Take(padded, BlockSize), prev))
       IN c \o CbcEncrypt(k, c, Drop(padded, BlockSize))

RECURSIVE CbcDecrypt(_, _, _)
CbcDecrypt(k, prev, ct) ==
  IF ct = <<>> THEN <<>>
  ELSE LET c == Take(ct, BlockSize)
       IN XorBlock(BlockDecrypt(k, c), prev) \o CbcDecrypt(k, c, Drop(ct, BlockSize))

\* cipher.update(data, "utf8", "hex") + cipher.final("hex")
CipherHex(k, iv, str) == HexEncode(CbcEncrypt(k, iv, Pad(Utf8Encode(str))))

\* Results of operations that may throw
Ok(v)     == [ok |-> TRUE, val |-> v, err |-> "none"]
Throw(e)  == [ok |-> FALSE, val |-> <<>>, err |-> e]

\* createDecipheriv + update + final: throws on an IV that is not 16 bytes
\* long, on a ciphertext that is empty or not a whole number of blocks, and on
\* bad padding.
PaddingOk(pt) ==
  LET n == pt[Len(pt)]
  IN /\ n >= 1 /\ n <= BlockSize
     /\ \A i \in (Len(pt) - n + 1)..Len(pt) : pt[i] = n

Decipher(k, iv, ct) ==
  IF Len(iv) # IvLen THEN Throw("InvalidIV")
  ELSE IF Len(ct) = 0 \/ Len(ct) % BlockSize # 0 THEN Throw("WrongFinalBlockLength")
  ELSE LET pt == CbcDecrypt(k, iv, ct)
       IN IF ~PaddingOk(pt) THEN Throw("BadDecrypt")
          ELSE Ok(Take(pt, Len(pt) - pt[Len(pt)]))

\* ------------------------------------------------------------------------
\* str.split(":"), parts.shift(), parts.join(":")
\* ------------------------------------------------------------------------
\* Position of the first ':' of str, 0 when there is none
FirstColon(str) ==
  LET at == {i \in 1..Len(str) : str[i] = ChColon}
  IN IF at = {} THEN 0 ELSE Min(at)

\* textParts.shift() after split(":"): the text before the first ':' (the
\* whole text when there is none)
SplitHead(str) ==
  LET p == FirstColon(str) IN IF p = 0 THEN str ELSE Take(str, p - 1)

\* textParts.join(":") after the shift: the text after the first ':' (empty
\* when there is none); the later ':' characters are put back by the join
SplitRest(str) ==
  LET p == FirstColon(str) IN IF p = 0 THEN <<>> ELSE Drop(str, p)

\* ------------------------------------------------------------------------
\* PNPEncryption of src/unnamed/part_000
\* ------------------------------------------------------------------------
PNPEncryption_encrypt(k, iv, data) ==
  Utf8Encode(HexEncode(iv) \o <<ChColon>> \o CipherHex(k, iv, data))

\* decrypt with the plaintext bytes read one character per byte
\* (decrypted.toString("latin1"))
PNPEncryption_decrypt_latin1(k, data) ==
  LET text          == Utf8Decode(data)
      iv            == HexDecode(SplitHead(text))
      encryptedText == HexDecode(SplitRest(text))
  IN Decipher(k, iv, encryptedText)

PNPEncryption_decrypt(k, data) ==
  LET text          == Utf8Decode(data)
      iv            == HexDecode(SplitHead(text))
      encryptedText == HexDecode(SplitRest(text))
      decrypted     == Decipher(k, iv, encryptedText)
  IN IF decrypted.ok THEN Ok(Utf8Decode(decrypted.val)) ELSE decrypted

\* ------------------------------------------------------------------------
\* PNPEncryption of src/src/PapayaClient.ts: the IV is a field of the codec
\* ------------------------------------------------------------------------
PapayaClient_encrypt(k, iv, data) == CipherHex(k, iv, data)

PapayaClient_decrypt(k, iv, data) ==
  LET decrypted == Decipher(k, iv, HexDecode(Utf8Decode(data)))
  IN IF decrypted.ok THEN Ok(Utf8Decode(decrypted.val)) ELSE decrypted

Impls == {"PNP", "PNPClient"}

\* The bytes sendRequest hands to send() and the text it gets from decrypt,
\* for a client of class cls; civ is the PNPClient codec's IV field, iv the
\* value randomBytes(16) returned
Encrypt(cls, k, civ, iv, data) ==
  IF cls = "PNP" THEN PNPEncryption_encrypt(k, iv, data)
  ELSE Utf8Encode(PapayaClient_encrypt(k, civ, data))   \* Buffer.from(encrypted)

Decrypt(cls, k, civ, data) ==
  IF cls = "PNP" THEN PNPEncryption_decrypt(k, data)
  ELSE PapayaClient_decrypt(k, civ, data)

\* Values crypto.randomBytes may return (two of the 2^256 keys and 2^128 IVs)
KeyOf(s) == [i \in 1..KeyLen |-> (37 * i + 101 * s) % 256]
IvOf(s)  == [i \in 1..IvLen |-> (11 * i + 53 * s) % 256]
Keys == {KeyOf(s) : s \in 1..NumKeys}
IVs  == {IvOf(s) : s \in 1..NumIvs}


\* ------------------------------------------------------------------------
\* JSON (JSON.stringify, JSON.parse) over objects, strings and non-negative
\* integers, without white space and without escapes in strings: the
\* documents of the protocol.  An object keeps its keys in insertion order.
\* ------------------------------------------------------------------------
ChQuote  == 34        \* '"'
ChComma  == 44        \* ','
ChLBrace == 123       \* '{'
ChRBrace == 125       \* '}'

JStr(str)        == [t |-> "str", s |-> str, n |-> 0, keys |-> <<>>, vals |-> <<>>]
JNum(num)        == [t |-> "num", s |-> <<>>, n |-> num, keys |-> <<>>, vals |-> <<>>]
JObj(ks, vs)     == [t |-> "obj", s |-> <<>>, n |-> 0, keys |-> ks, vals |-> vs]
JUndefined       == [t |-> "undefined", s |-> <<>>, n |-> 0, keys |-> <<>>, vals |-> <<>>]

HasKey(v, name)  == v.t = "obj" /\ \E i \in 1..Len(v.keys) : v.keys[i] = name
Get(v, name)     ==
  IF HasKey(v, name)
  THEN v.vals[CHOOSE i \in 1..Len(v.keys) : v.keys[i] = name]
  ELSE JUndefined

RECURSIVE Digits(_)
Digits(num) ==
  IF num < 10 THEN <<ChZero + num>> ELSE Digits(num \div 10) \o <<ChZero + (num % 10)>>

Quoted(str) == <<ChQuote>> \o str \o <<ChQuote>>

RECURSIVE JSON_stringify(_)
JSON_stringify(v) ==
  IF v.t = "str" THEN Quoted(v.s)
  ELSE IF v.t = "num" THEN Digits(v.n)
  ELSE <<ChLBrace>>
       \o Flatten([i \in 1..Len(v.keys) |->
                     (IF i > 1 THEN <<ChComma>> ELSE <<>>)
                     \o Quoted(v.keys[i]) \o <<ChColon>> \o JSON_stringify(v.vals[i])])
       \o <<ChRBrace>>

IsDigit(c) == c >= ChZero /\ c <= ChZero + 9

RECURSIVE DigitsValue(_, _, _)
DigitsValue(text, lo, hi) ==
  IF lo > hi THEN 0 ELSE 10 * DigitsValue(text, lo, hi - 1) + (text[hi] - ChZero)

ParseFail == [ok |-> FALSE, val |-> JUndefined, next |-> 0]
Parsed(v, nxt) == [ok |-> TRUE, val |-> v, next |-> nxt]

\* "..." at position i
ParseString(text, i) ==
  IF i > Len(text) \/ text[i] # ChQuote THEN ParseFail
  ELSE LET close == {j \in (i + 1)..Len(text) : text[j] = ChQuote}
       IN IF close = {} THEN ParseFail
          ELSE Parsed(JStr([j \in 1..(Min(close) - i - 1) |-> text[i + j]]),
                      Min(close) + 1)

ParseNumber(text, i) ==
  LET stop == {j \in i..Len(text) : ~IsDigit(text[j])}
      end  == IF stop = {} THEN Len(text) + 1 ELSE Min(stop)
  IN IF end = i \/ (text[i] = ChZero /\ end > i + 1) THEN ParseFail
     ELSE Parsed(JNum(DigitsValue(text, i, end - 1)), end)

RECURSIVE ParseValue(_, _)
RECURSIVE ParseMembers(_, _, _, _)

\* the members of an object from position i on, after '{' or ','
ParseMembers(text, i, ks, vs) ==
  LET k == ParseString(text, i) IN
  IF ~k.ok \/ k.next > Len(text) \/ text[k.next] # ChColon THEN ParseFail
  ELSE LET v == ParseValue(text, k.next + 1) IN
    IF ~v.ok \/ v.next > Len(text) THEN ParseFail
    ELSE IF text[v.next] = ChComma
      THEN ParseMembers(text, v.next + 1, Append(ks, k.val.s), Append(vs, v.val))
    ELSE IF text[v.next] = ChRBrace
      THEN Parsed(JObj(Append(ks, k.val.s), Append(vs, v.val)), v.next + 1)
    ELSE ParseFail

ParseValue(text, i) ==
  IF i > Len(text) THEN ParseFail
  ELSE IF text[i] = ChQuote THEN ParseString(text, i)
  ELSE IF IsDigit(text[i]) THEN ParseNumber(text, i)
  ELSE IF text[i] = ChLBrace
    THEN IF i + 1 <= Len(text) /\ text[i + 1] = ChRBrace
         THEN Parsed(JObj(<<>>, <<>>), i + 2)
         ELSE ParseMembers(text, i + 1, <<>>, <<>>)
  ELSE ParseFail

\* JSON.parse: the value, or a SyntaxError
JSON_parse(text) ==
  LET r == ParseValue(text, 1)
  IN IF r.ok /\ r.next = Len(text) + 1 THEN [ok |-> TRUE, val |-> r.val, err |-> "none"]
     ELSE [ok |-> FALSE, val |-> JUndefined, err |-> "SyntaxError"]

\* Names and values of the documents
StrMethod  == <<109, 101, 116, 104, 111, 100>>
StrPath    == <<112, 97, 116, 104>>
StrHeaders == <<104, 101, 97, 100, 101, 114, 115>>
StrBody    == <<98, 111, 100, 121>>
StrStatus  == <<115, 116, 97, 116, 117, 115>>
StrGet     == <<103, 101, 116>>
StrSlash   == <<47>>
StatusOK   == 200

\* PNPRequest, built by the caller field by field in the declared order
PNPRequest(method, path, body) ==
  JObj(<<StrMethod, StrPath, StrHeaders, StrBody>>,
       <<JStr(method), JStr(path), JObj(<<>>, <<>>), JStr(body)>>)

\* PNPResponse, as the peer serializes it
PNPResponse(status, body) ==
  JObj(<<StrStatus, StrHeaders, StrBody>>,
       <<JNum(status), JObj(<<>>, <<>>), JStr(body)>>)

\* the required fields of PNPResponse
HasResponseFields(v) == HasKey(v, StrStatus) /\ HasKey(v, StrHeaders) /\ HasKey(v, StrBody)

\* ------------------------------------------------------------------------
\* State
\* ------------------------------------------------------------------------
VARIABLES
  impl,     \* the class that was constructed: "PNP" or "PNPClient"
  key,      \* PNPEncryption.key
  civ,      \* PNPEncryption.iv (PapayaClient.ts); <<>> in part_000, which has no such field
  prevEnc,  \* the encrypt() call before the last one on the codec, or NoEnc
  lastEnc,  \* the last encrypt() call on the codec: its data, IV and result
  dec,      \* the last decrypt() call on the codec: its argument and outcome
  sock,     \* net.Socket: "idle" (new), "connecting", "connected", "closed" (destroyed)
  ended,    \* socket.end() has been called since the socket was last connected
  debugMode,\* PNPConnection.debugMode
  connects, \* the promise of each connect() call: "pending", "resolved", "rejected"
  calls,    \* one record per sendRequest() call
  dataListeners,  \* calls whose once("data") listener is registered on the socket
  errorListeners, \* the on("error") listeners of the socket, in registration order
  peerIn,   \* the calls whose request bytes reached the peer, in order
  replied,  \* how many of them the peer has answered (or dropped with the session)
  other     \* the fields of a second client instance, or NoClient

codecVars  == <<impl, key, civ>>
probeVars  == <<prevEnc, lastEnc, dec>>
clientVars == <<sock, ended, debugMode, connects, calls, dataListeners, errorListeners,
                peerIn, replied>>
vars == <<impl, key, civ, prevEnc, lastEnc, dec, sock, ended, debugMode, connects, calls,
          dataListeners, errorListeners, peerIn, replied, other>>

\* The fields of an instance as a record: its codec's and its connection's
ClientOf(k, v, s, e, d, cn, cs, dl, el, pin, rep) ==
  [key |-> k, civ |-> v, sock |-> s, ended |-> e, debugMode |-> d, connects |-> cn,
   calls |-> cs, dataListeners |-> dl, errorListeners |-> el, peerIn |-> pin,
   replied |-> rep]

\* no second instance has been constructed
NoClient == ClientOf(<<>>, <<>>, "none", FALSE, FALSE, <<>>, <<>>, {}, <<>>, <<>>, 0)

NoEnc == [called |-> FALSE, data |-> <<>>, iv |-> <<>>, out |-> <<>>]
NoDec == [called |-> FALSE, in |-> <<>>, out |-> Throw("none")]

\* new PNPEncryption(): part_000 draws the key itself; PapayaClient.ts is
\* handed a key and an IV
CodecInit ==
  /\ impl \in Impls
  /\ key \in Keys
  /\ civ \in (IF impl = "PNP" THEN {<<>>} ELSE IVs)

\* new PNPConnection(host, port, debugMode); PapayaClient.ts has no flag and
\* always logs
ConnectionInit ==
  /\ sock = "idle"
  /\ ended = FALSE
  /\ debugMode \in (IF impl = "PNP" THEN BOOLEAN ELSE {TRUE})
  /\ connects = <<>>
  /\ calls = <<>>
  /\ dataListeners = {}
  /\ errorListeners = <<>>
  /\ peerIn = <<>>
  /\ replied = 0

\* ------------------------------------------------------------------------
\* The codec on its own: encrypt and decrypt applied to bounded inputs
\* ------------------------------------------------------------------------
ChAccentE == 233      \* a two-byte character in UTF-8
ChLowerZ  == 122      \* 'z', not a hexadecimal digit

\* One block of UTF-8 exactly (padding adds a whole block), and more than one
Plain16 == [i \in 1..BlockSize |-> ChLowerA]
Plain17 == [i \in 1..BlockSize |-> IF i = 3 THEN ChAccentE ELSE IF i = 5 THEN ChColon ELSE ChLowerA]

PlainTexts == SeqsUpTo({ChColon, ChAccentE}, MaxPlainLen) \cup {Plain16, Plain17}

\* The IV an encrypt call uses: part_000 draws one (line 92), PapayaClient.ts
\* uses the codec's field (line 85)
UsedIv(iv) == IF impl = "PNP" THEN iv ELSE civ

\* At most two encrypt calls, made before the decrypt calls
CodecEncrypt(data, iv) ==
  /\ ~dec.called
  /\ ~prevEnc.called
  /\ prevEnc' = lastEnc
  /\ lastEnc' = [called |-> TRUE, data |-> data, iv |-> UsedIv(iv),
                 out |-> Encrypt(impl, key, civ, iv, data)]
  /\ UNCHANGED <<impl, key, civ, dec>>
  /\ UNCHANGED <<clientVars, other>>

\* Payloads handed to decrypt: what encrypt returned, and malformed ones
RemoveAt(str, p) == Take(str, p - 1) \o Drop(str, p)
InsertAt(str, p, c) == Take(str, p - 1) \o <<c>> \o Drop(str, p - 1)

Malformed(w) ==
  LET colon == FirstColon(w)
  IN {w \o <<ChLowerZ, ChLowerZ>>,                 \* non-hex appended
      <<ChLowerZ>> \o w,                           \* non-hex before the IV
      InsertAt(w, Len(w) - 1, ChLowerZ),           \* non-hex inside the ciphertext
      Take(w, Len(w) - 2),                         \* one byte of ciphertext missing
      <<>>, <<ChColon>>, <<ChLowerZ, ChLowerZ>>}
     \cup (IF colon = 0 THEN {}
           ELSE {RemoveAt(w, colon),               \* the delimiter removed
                 Take(w, colon - 1),               \* the IV alone
                 InsertAt(w, colon, ChLowerZ),     \* non-hex after a whole IV
                 InsertAt(w, colon + 1, ChLowerZ)})\* non-hex before the ciphertext

\* One decrypt call, after the encrypt calls
CodecDecrypt(data) ==
  /\ lastEnc.called
  /\ ~dec.called
  /\ dec' = [called |-> TRUE, in |-> data, out |-> Decrypt(impl, key, civ, data)]
  /\ UNCHANGED <<impl, key, civ, prevEnc, lastEnc>>
  /\ UNCHANGED <<clientVars, other>>

CodecDecryptOwn == CodecDecrypt(lastEnc.out)

CodecDecryptMalformed ==
  /\ lastEnc.called
  /\ \E data \in Malformed(lastEnc.out) : CodecDecrypt(data)

CodecInitAll ==
  /\ CodecInit
  /\ ConnectionInit
  /\ prevEnc = NoEnc
  /\ lastEnc = NoEnc
  /\ dec = NoDec
  /\ other = NoClient

CodecNext ==
  \/ \E data \in PlainTexts, iv \in IVs : CodecEncrypt(data, iv)
  \/ CodecDecryptOwn
  \/ CodecDecryptMalformed

SpecCodec == CodecInitAll /\ [][CodecNext]_vars


\* ------------------------------------------------------------------------
\* The client: PNP (part_000) / PNPClient (PapayaClient.ts) with its
\* PNPConnection.
\*
\* A promise callback runs when the event that settles the promise has been
\* handled and before the next socket event, so the code of sendRequest up to
\* its next await runs in the step of the event that resumes it.
\* ------------------------------------------------------------------------
StepOrder == <<"serialize", "encrypt", "send", "receive", "decrypt", "parse">>

\* sendRequest up to `await this.connection.send(encrypted)`: the request is
\* serialized, encrypted and handed to socket.write, which queues it when the
\* socket is connecting or connected and its writable side has not been ended
NewCall(request, iv) ==
  [req     |-> request,
   wire    |-> Encrypt(impl, key, civ, iv, JSON_stringify(request)),
   queued  |-> sock \in {"connecting", "connected"} /\ ~ended,
   pc      |-> "sending",
   trace   |-> <<"serialize", "encrypt", "send">>,
   sendOk  |-> FALSE,
   chunk   |-> <<>>,
   replyTo |-> 0,
   decIn   |-> <<>>,
   result  |-> JUndefined,
   err     |-> "none"]

\* The callbacks and listeners of PNPConnection.  Each one prints a line when
\* the debug flag is set (PapayaClient.ts prints always) and settles the
\* promise of the call that registered it.
Log(mode, line) == IF mode THEN <<line>> ELSE <<>>

\* the callback given to socket.connect
ConnectCallback(mode) ==
  [settle |-> "resolve", log |-> Log(mode, "Connected to")]

\* the error listener of connect()
ConnectErrorListener(mode) ==
  [settle |-> "reject", log |-> Log(mode, "Error")]

\* the callback given to socket.write
SendCallback(mode, err) ==
  IF err THEN [settle |-> "reject", log |-> Log(mode, "Error")]
  ELSE [settle |-> "resolve", log |-> Log(mode, "Sent data to")]

\* the once("data") listener of receive()
ReceiveDataListener(mode) ==
  [settle |-> "resolve", log |-> Log(mode, "Got data from")]

\* an error listener that keeps quiet about the error when it has printed it
ReceiveErrorListener_quiet(mode) ==
  [settle |-> IF mode THEN "none" ELSE "reject", log |-> Log(mode, "Error")]

\* the error listener of receive()
ReceiveErrorListener(mode) ==
  [settle |-> "reject", log |-> Log(mode, "Error")]

\* close(): socket.end() and a line
CloseConnection(mode) ==
  [op |-> "end", log |-> Log(mode, "Connection closed")]

\* the state of a promise after a handler ran on it
SettledAs(was, h) ==
  IF was # "pending" THEN was
  ELSE IF h.settle = "resolve" THEN "resolved"
  ELSE IF h.settle = "reject" THEN "rejected"
  ELSE "pending"

\* send resolved: sendRequest goes on to `await this.connection.receive()`
OnSendResolved(c) ==
  [c EXCEPT !.sendOk = TRUE, !.pc = "receiving", !.trace = Append(@, "receive")]

\* send rejected and sendRequest writes the bytes again
OnSendRejected_retry(c) ==
  [c EXCEPT !.trace = Append(@, "send")]

\* send rejected: the await throws and sendRequest rejects
OnSendRejected(c) ==
  [c EXCEPT !.pc = "rejected", !.err = "send"]

\* a promise that could be settled again
PromiseSettled_never(c) == FALSE

\* The promise of a call's receive() is settled when the call has got past
\* its await; resolve and reject of a settled promise do nothing
PromiseSettled(c) == c.pc \in {"resolved", "rejected"}

\* the request bytes are decrypted instead of the response
DecryptInput_request(c) == c.wire

\* `this.encryption.decrypt(responseEncrypted)`
DecryptInput(c) == c.chunk

\* receive resolved with chunk (the peer's answer to call from's request):
\* sendRequest decrypts it, parses the text and returns the value
OnData(c, chunk, from) ==
  IF PromiseSettled(c) THEN c
  ELSE LET got       == [c EXCEPT !.chunk = chunk, !.replyTo = from]
           decrypted == Decrypt(impl, key, civ, DecryptInput(got))
           parsed    == JSON_parse(decrypted.val)
       IN IF ~decrypted.ok
            THEN [got EXCEPT !.pc = "rejected", !.err = "decrypt",
                             !.decIn = DecryptInput(got),
                             !.trace = Append(@, "decrypt")]
          ELSE IF ~parsed.ok
            THEN [got EXCEPT !.pc = "rejected", !.err = "parse",
                             !.decIn = DecryptInput(got),
                             !.trace = @ \o <<"decrypt", "parse">>]
          ELSE [got EXCEPT !.pc = "resolved", !.result = parsed.val,
                           !.decIn = DecryptInput(got),
                           !.trace = @ \o <<"decrypt", "parse">>]

\* the error listener of receive(): reject(err)
OnError(c) ==
  IF PromiseSettled(c) THEN c
  ELSE [c EXCEPT !.pc = "rejected", !.err = "receive"]

\* PNP.connect -> PNPConnection.connect: socket.connect and an error listener.
\* net.Socket documents connect() for a new socket and for reconnecting a
\* destroyed one (which resets its stream state); other uses are left out.
Connect ==
  /\ Len(connects) < MaxConnects
  /\ sock \in {"idle", "closed"}
  /\ sock' = "connecting"
  /\ ended' = IF sock = "closed" THEN FALSE ELSE ended
  /\ connects' = Append(connects, "pending")
  /\ errorListeners' = Append(errorListeners, [kind |-> "connect", id |-> Len(connects) + 1])
  /\ UNCHANGED <<debugMode, calls, dataListeners, peerIn, replied>>
  /\ UNCHANGED <<codecVars, probeVars, other>>

\* the socket's 'connect' event: the callbacks given to socket.connect run
SocketConnect ==
  /\ sock = "connecting"
  /\ sock' = "connected"
  /\ connects' = [i \in 1..Len(connects) |->
                    SettledAs(connects[i], ConnectCallback(debugMode))]
  /\ UNCHANGED <<ended, debugMode, calls, dataListeners, errorListeners, peerIn, replied>>
  /\ UNCHANGED <<codecVars, probeVars, other>>

\* only the error listener registered last runs
ErrorTargets_latest == {Len(errorListeners)} \ {0}

\* the listeners an 'error' event runs: every on("error") listener that was
\* ever registered, as nothing removes one
ErrorTargets == 1..Len(errorListeners)

\* the connect() calls whose error listener runs
ConnectErrorListeners ==
  {errorListeners[n].id : n \in {m \in ErrorTargets : errorListeners[m].kind = "connect"}}

\* the sendRequest() calls whose receive() has an error listener that runs
ReceiveErrorListeners ==
  {errorListeners[n].id : n \in {m \in ErrorTargets : errorListeners[m].kind = "receive"}}

\* writes that were queued on a socket that is destroyed end in an error
AbortWrites(cs) ==
  [j \in 1..Len(cs) |-> IF cs[j].pc = "sending" THEN [cs[j] EXCEPT !.queued = FALSE] ELSE cs[j]]

\* the socket's 'error' event (refused, reset, ...): every error listener
\* runs and the socket is destroyed
SocketError ==
  /\ sock \in {"connecting", "connected"}
  /\ sock' = "closed"
  /\ connects' = [i \in 1..Len(connects) |->
                    IF i \in ConnectErrorListeners
                    THEN SettledAs(connects[i], ConnectErrorListener(debugMode))
                    ELSE connects[i]]
  /\ calls' = AbortWrites([j \in 1..Len(calls) |->
                 IF /\ j \in ReceiveErrorListeners
                    /\ ReceiveErrorListener(debugMode).settle = "reject"
                 THEN OnError(calls[j]) ELSE calls[j]])
  /\ replied' = Len(peerIn)
  /\ UNCHANGED <<ended, debugMode, dataListeners, errorListeners, peerIn>>
  /\ UNCHANGED <<codecVars, probeVars, other>>

\* the peer closes the connection: no listener of the client runs
PeerClose ==
  /\ sock = "connected"
  /\ sock' = "closed"
  /\ calls' = AbortWrites(calls)
  /\ replied' = Len(peerIn)
  /\ UNCHANGED <<ended, debugMode, connects, dataListeners, errorListeners, peerIn>>
  /\ UNCHANGED <<codecVars, probeVars, other>>

\* a close() that cancels the receives that are waiting
Close_cancelling ==
  /\ ended' = TRUE
  /\ calls' = [j \in 1..Len(calls) |-> OnError(calls[j])]
  /\ UNCHANGED <<sock, debugMode, connects, dataListeners, errorListeners,
                 peerIn, replied>>
  /\ UNCHANGED <<codecVars, probeVars, other>>

\* PNP.close -> PNPConnection.close: socket.end()
Close ==
  /\ ended' = (ended \/ CloseConnection(debugMode).op = "end")
  /\ UNCHANGED <<sock, debugMode, connects, calls, dataListeners, errorListeners,
                 peerIn, replied>>
  /\ UNCHANGED <<codecVars, probeVars, other>>

\* PNP.setDebugMode -> PNPConnection.setDebugMode (part_000 only)
SetDebugMode(mode) ==
  /\ impl = "PNP"
  /\ debugMode' = mode
  /\ UNCHANGED <<sock, ended, connects, calls, dataListeners, errorListeners,
                 peerIn, replied>>
  /\ UNCHANGED <<codecVars, probeVars, other>>

\* The caller's n-th request: its body names the call
RequestOf(n) == PNPRequest(StrGet, StrSlash, Digits(n))

\* PNP.sendRequest, called by the caller in any state of the client
SendRequest(iv) ==
  /\ Len(calls) < MaxCalls
  /\ calls' = Append(calls, NewCall(RequestOf(Len(calls) + 1), iv))
  /\ UNCHANGED <<sock, ended, debugMode, connects, dataListeners, errorListeners,
                 peerIn, replied>>
  /\ UNCHANGED <<codecVars, probeVars, other>>

\* the callback of socket.write: without an error when the bytes were queued
\* and went out on the connection (the peer has them), with an error when
\* they were not queued or the socket was destroyed; a write queued on a
\* connecting socket waits
WriteCallback(i) ==
  /\ calls[i].pc = "sending"
  /\ ~calls[i].queued \/ sock \in {"connected", "closed"}
  /\ LET c       == calls[i]
         written == c.queued /\ sock = "connected"
         new     == IF SendCallback(debugMode, ~written).settle = "resolve"
                    THEN OnSendResolved(c) ELSE OnSendRejected(c)
     IN /\ calls' = [calls EXCEPT ![i] = new]
        /\ dataListeners' = IF new.pc = "receiving" THEN dataListeners \cup {i}
                            ELSE dataListeners
        /\ errorListeners' = IF new.pc = "receiving"
                             THEN Append(errorListeners, [kind |-> "receive", id |-> i])
                             ELSE errorListeners
        /\ peerIn' = IF written THEN Append(peerIn, i) ELSE peerIn
  /\ UNCHANGED <<sock, ended, debugMode, connects, replied>>
  /\ UNCHANGED <<codecVars, probeVars, other>>

\* What the peer sends back for the request bytes it received.  The peer is
\* taken to hold the client's key; it echoes the body of the request in a
\* well-formed response, or answers with something else.
PeerIv == IvOf(1)
StrOnlyStatus == JObj(<<StrStatus>>, <<JNum(StatusOK)>>)

PeerKinds == {"response", "nofields", "notjson", "garbage"}

PeerEcho(wire) ==
  PNPResponse(StatusOK, Get(JSON_parse(Decrypt(impl, key, civ, wire).val).val, StrBody).s)

PeerChunk(kind, wire) ==
  IF kind = "response"
    THEN Encrypt(impl, key, civ, PeerIv, JSON_stringify(PeerEcho(wire)))
  ELSE IF kind = "nofields"
    THEN Encrypt(impl, key, civ, PeerIv, JSON_stringify(StrOnlyStatus))
  ELSE IF kind = "notjson"
    THEN Encrypt(impl, key, civ, PeerIv, <<ChLowerZ>>)
  ELSE <<ChLowerZ, ChLowerZ>>

\* only the receive() that has waited longest gets the chunk
DataTargets_oldest == IF dataListeners = {} THEN {} ELSE {Min(dataListeners)}

\* the listeners a 'data' event runs: every once("data") listener registered
DataTargets == dataListeners

\* listeners registered with on("data") stay after they ran
RemoveOnce_keep(listeners, fired) == listeners

\* a listener registered with once() is removed when it runs
RemoveOnce(listeners, fired) == listeners \ fired

\* a 'data' event that also runs the data listeners of the second instance,
\* as with one socket for the whole process
Data_broadcast(kind) ==
  /\ sock = "connected"
  /\ replied < Len(peerIn)
  /\ LET from  == peerIn[replied + 1]
         chunk == PeerChunk(kind, calls[from].wire)
     IN /\ calls' = [j \in 1..Len(calls) |->
                       IF j \in DataTargets THEN OnData(calls[j], chunk, from) ELSE calls[j]]
        /\ other' = [other EXCEPT
                       !.calls = [j \in 1..Len(other.calls) |->
                                    IF j \in other.dataListeners
                                    THEN OnData(other.calls[j], chunk, from)
                                    ELSE other.calls[j]],
                       !.dataListeners = {}]
  /\ dataListeners' = RemoveOnce(dataListeners, DataTargets)
  /\ replied' = replied + 1
  /\ UNCHANGED <<sock, ended, debugMode, connects, errorListeners, peerIn>>
  /\ UNCHANGED <<codecVars, probeVars>>

\* the socket's 'data' event with the peer's answer to its oldest unanswered
\* request: the once-listeners run and are removed
Data(kind) ==
  /\ sock = "connected"
  /\ replied < Len(peerIn)
  /\ LET from  == peerIn[replied + 1]
         chunk == PeerChunk(kind, calls[from].wire)
     IN calls' = [j \in 1..Len(calls) |->
                    IF /\ j \in DataTargets
                       /\ ReceiveDataListener(debugMode).settle = "resolve"
                    THEN OnData(calls[j], chunk, from) ELSE calls[j]]
  /\ dataListeners' = RemoveOnce(dataListeners, DataTargets)
  /\ replied' = replied + 1
  /\ UNCHANGED <<sock, ended, debugMode, connects, errorListeners, peerIn>>
  /\ UNCHANGED <<codecVars, probeVars, other>>

Init ==
  /\ CodecInit
  /\ ConnectionInit
  /\ prevEnc = NoEnc
  /\ lastEnc = NoEnc
  /\ dec = NoDec
  /\ other = NoClient

Next ==
  \/ Connect
  \/ SocketConnect
  \/ SocketError
  \/ PeerClose
  \/ Close
  \/ \E mode \in BOOLEAN : SetDebugMode(mode)
  \/ \E iv \in IVs : SendRequest(iv)
  \/ \E i \in 1..Len(calls) : WriteCallback(i)
  \/ \E kind \in PeerKinds : Data(kind)

Spec == Init /\ [][Next]_vars

\* A caller that awaits every sendRequest before the next one and uses the
\* client only while it is connected
Settled(c) == c.pc \in {"resolved", "rejected"}

SerialSendRequest(iv) ==
  /\ sock = "connected"
  /\ \A j \in 1..Len(calls) : Settled(calls[j])
  /\ SendRequest(iv)

SerialNext ==
  \/ Connect
  \/ SocketConnect
  \/ SocketError
  \/ PeerClose
  \/ Close
  \/ \E mode \in BOOLEAN : SetDebugMode(mode)
  \/ \E iv \in IVs : SerialSendRequest(iv)
  \/ \E i \in 1..Len(calls) : WriteCallback(i)
  \/ \E kind \in PeerKinds : Data(kind)

SpecSerial == Init /\ [][SerialNext]_vars

\* A caller that builds its request objects with the fields assigned in an
\* order of its choice: a JavaScript object keeps its properties in the order
\* of assignment.  FieldOrders[n][i] is the canonical place of the field
\* assigned i-th.
FieldOrders == {<<1, 2, 3, 4>>, <<4, 3, 2, 1>>, <<2, 1, 4, 3>>}

Reordered(request, order) ==
  JObj([i \in 1..Len(order) |-> request.keys[order[i]]],
       [i \in 1..Len(order) |-> request.vals[order[i]]])

SendRequestIn(order, iv) ==
  /\ Len(calls) < MaxCalls
  /\ calls' = Append(calls, NewCall(Reordered(RequestOf(1), order), iv))
  /\ UNCHANGED <<sock, ended, debugMode, connects, dataListeners, errorListeners,
                 peerIn, replied>>
  /\ UNCHANGED <<codecVars, probeVars, other>>

OrderNext ==
  \/ Connect
  \/ SocketConnect
  \/ \E order \in FieldOrders : SendRequestIn(order, PeerIv)
  \/ \E i \in 1..Len(calls) : WriteCallback(i)
  \/ Data("response")

SpecOrder == Init /\ [][OrderNext]_vars

\* Two instances of the class side by side.  The variables hold the fields
\* of the instance whose call or socket event runs next, other holds the
\* fields of the second one; Switch gives the turn to the second instance.
\* Each constructor makes its own codec and its own net.Socket.
Constructed ==
  {ClientOf(k, v, "idle", FALSE, d, <<>>, <<>>, {}, <<>>, <<>>, 0) :
     k \in Keys, v \in (IF impl = "PNP" THEN {<<>>} ELSE IVs),
     d \in (IF impl = "PNP" THEN BOOLEAN ELSE {TRUE})}

PairInit ==
  /\ CodecInit
  /\ ConnectionInit
  /\ prevEnc = NoEnc
  /\ lastEnc = NoEnc
  /\ dec = NoDec
  /\ other \in Constructed

Switch ==
  /\ other' = ClientOf(key, civ, sock, ended, debugMode, connects, calls,
                       dataListeners, errorListeners, peerIn, replied)
  /\ key' = other.key
  /\ civ' = other.civ
  /\ sock' = other.sock
  /\ ended' = other.ended
  /\ debugMode' = other.debugMode
  /\ connects' = other.connects
  /\ calls' = other.calls
  /\ dataListeners' = other.dataListeners
  /\ errorListeners' = other.errorListeners
  /\ peerIn' = other.peerIn
  /\ replied' = other.replied
  /\ UNCHANGED <<impl, probeVars>>

PairNext ==
  \/ Switch
  \/ Len(connects) < PairConnects /\ Connect
  \/ SocketConnect
  \/ SocketError
  \/ PeerClose
  \/ Close
  \/ \E mode \in BOOLEAN : SetDebugMode(mode)
  \/ Len(calls) < PairCalls /\ SendRequest(PeerIv)
  \/ \E i \in 1..Len(calls) : WriteCallback(i)
  \/ \E kind \in {"response", "garbage"} : Data(kind)

SpecPair == PairInit /\ [][PairNext]_vars

\* ------------------------------------------------------------------------
\* Claims about the client (checked under Spec, C2 under SpecSerial)
\* ------------------------------------------------------------------------
CallIds == 1..Len(calls)

InFlight(c) == c.pc \in {"sending", "receiving"}

Count(step, trace) == Cardinality({n \in 1..Len(trace) : trace[n] = step})

\* what sendRequest returns for a chunk
ValueOf(chunk) == JSON_parse(Decrypt(impl, key, civ, chunk).val).val

\* C1: at most one request is in flight: never have two sendRequest calls
\* both started with neither having had its receive settled
C1_OneInFlight ==
  Cardinality({i \in CallIds : InFlight(calls[i])}) <= 1

\* C2: call-order matching under a serialized caller and one chunk per
\* request: the chunk the i-th call's receive resolves with is the one the
\* peer produced for the i-th request, and the i-th call returns its value
C2_CallOrderMatching ==
  \A i \in CallIds :
    calls[i].replyTo # 0 =>
      /\ calls[i].replyTo = i
      /\ \E kind \in PeerKinds : calls[i].chunk = PeerChunk(kind, calls[i].wire)
      /\ calls[i].pc = "resolved" => calls[i].result = ValueOf(calls[i].chunk)

\* two serialized calls have both returned the peer's response to their own
\* request
C2_Witness ==
  /\ Len(calls) = 2
  /\ \A i \in CallIds :
       /\ calls[i].pc = "resolved"
       /\ calls[i].replyTo = i
       /\ calls[i].result = PNPResponse(StatusOK, Digits(i))

\* C3: with a second sendRequest issued before the first response has been
\* received, the chunk of a 'data' event reaches every call that is waiting
\* in receive(), not only the call it answers: each of them leaves receive()
\* with the answer to the oldest unanswered request
C3_SharedResponseWait ==
  [][(replied' = replied + 1 /\ dataListeners' # dataListeners) =>
       \A j \in CallIds :
         calls[j].pc = "receiving" =>
           /\ calls'[j].pc # "receiving"
           /\ calls'[j].replyTo = peerIn[replied + 1]
           /\ calls'[j].err # "receive"]_vars

\* the second call has resolved, without an error, with the response the
\* peer produced for the first request
C3_Witness ==
  /\ Len(calls) = 2
  /\ calls[2].pc = "resolved" /\ calls[2].err = "none"
  /\ calls[2].replyTo = 1
  /\ calls[2].result = PNPResponse(StatusOK, Digits(1))
  /\ calls[2].result # PNPResponse(StatusOK, Get(calls[2].req, StrBody).s)

\* C4: every sendRequest call performs serialize, encrypt, send, receive,
\* decrypt, parse in this order, each at most once; receive only after its
\* send has resolved; decrypt only on the bytes receive resolved with
C4_StepOrder ==
  \A i \in CallIds :
    LET c == calls[i]
    IN /\ Len(c.trace) <= Len(StepOrder)
       /\ c.trace = Take(StepOrder, Len(c.trace))
       /\ Count("send", c.trace) = 1
       /\ Count("receive", c.trace) = 1 <=> c.sendOk
       /\ Count("decrypt", c.trace) = 1 =>
            /\ Count("receive", c.trace) = 1
            /\ c.replyTo # 0
            /\ c.decIn = c.chunk

\* a call has gone through all six steps
C4_Witness ==
  \E i \in CallIds :
    /\ calls[i].pc = "resolved"
    /\ calls[i].trace = StepOrder
    /\ calls[i].sendOk
    /\ calls[i].decIn = calls[i].chunk /\ calls[i].chunk # <<>>

\* The state of the client in the terms of the state path
State ==
  IF sock = "closed" \/ ended THEN "Closed"
  ELSE IF sock = "idle" THEN "Idle"
  ELSE IF sock = "connecting" THEN "Connecting"
  ELSE IF \E i \in CallIds : calls[i].pc = "receiving" THEN "AwaitingResponse"
  ELSE IF \E i \in CallIds : calls[i].pc = "sending" THEN "Sending"
  ELSE "Connected"

\* C5: the state path: a sendRequest starts sending only from Connected;
\* sendRequest, its steps and setDebugMode leave the connection state as it
\* is; nothing leaves Closed
C5_StatePath ==
  [][/\ Len(calls') > Len(calls) => State = "Connected"
     /\ (calls' # calls /\ connects' = connects) \/ debugMode' # debugMode
          => (sock' = sock \/ sock' = "closed") /\ ended' = ended
     /\ State = "Closed" => State' = "Closed"]_vars

\* C6: sendRequest never resolves with a value that lacks one of the fields
\* status, headers, body, and rejects when the text is not valid JSON
C6_ResponseValidated ==
  \A i \in CallIds :
    /\ calls[i].pc = "resolved" => HasResponseFields(calls[i].result)
    /\ (/\ Count("decrypt", calls[i].trace) = 1
        /\ calls[i].err # "decrypt"
        /\ ~JSON_parse(Decrypt(impl, key, civ, calls[i].decIn).val).ok)
       => calls[i].pc = "rejected"

\* C7: a failure propagates with no recovery and no retry: a failed send is
\* followed by no receive and no decrypt, a failed receive by no decrypt, a
\* failed decrypt by no parse, and no call sends or receives twice
C7_FailurePropagation ==
  \A i \in CallIds :
    LET c == calls[i]
    IN /\ (c.pc # "sending" /\ ~c.sendOk) =>
            c.pc = "rejected" /\ c.err = "send" /\ c.trace = Take(StepOrder, 3)
       /\ c.err = "send" => c.pc = "rejected" /\ c.trace = Take(StepOrder, 3)
       /\ c.err = "receive" => c.pc = "rejected" /\ c.trace = Take(StepOrder, 4)
       /\ c.err = "decrypt" => c.pc = "rejected" /\ c.trace = Take(StepOrder, 5)
       /\ c.err = "parse" => c.pc = "rejected"
       /\ Count("send", c.trace) <= 1
       /\ Count("receive", c.trace) <= 1

\* one call failed in send and another in decrypt
C7_Witness ==
  \E i, j \in CallIds :
    /\ calls[i].pc = "rejected" /\ calls[i].err = "send"
    /\ calls[j].pc = "rejected" /\ calls[j].err = "decrypt"

\* ------------------------------------------------------------------------
\* Claims about the codec (checked under SpecCodec)
\* ------------------------------------------------------------------------
Range(f) == {f[i] : i \in DOMAIN f}

\* C8: round trip on one codec instance: decrypt applied to what encrypt
\* returned for the plaintext x returns exactly x, for every plaintext drawn
\* (the empty string, strings with ':' and with multi-byte characters, one
\* and two blocks), for either class
C8_RoundTrip ==
  (dec.called /\ dec.in = lastEnc.out) => dec.out = Ok(lastEnc.data)

\* a plaintext with a ':' and a two-byte character went through encrypt and
\* decrypt of part_000's codec
C8_Witness ==
  /\ impl = "PNP"
  /\ dec.called /\ dec.in = lastEnc.out /\ dec.out.ok
  /\ {ChColon, ChAccentE} \subseteq Range(lastEnc.data)

\* C9: IV uniqueness: two encrypt calls on one codec never use the same IV,
\* and never return the same payload for the same plaintext
C9_IvUnique ==
  prevEnc.called =>
    /\ prevEnc.iv # lastEnc.iv
    /\ (prevEnc.data = lastEnc.data => prevEnc.out # lastEnc.out)

NoDelimiter(text) == FirstColon(text) = 0

NonHexSide(text) ==
  /\ ~NoDelimiter(text)
  /\ \E i \in 1..Len(text) : i # FirstColon(text) /\ ~IsHexChar(text[i])

\* C10: malformed input rejection: decrypt (part_000) throws, and returns no
\* string, for every payload without a ':' and every payload with a
\* non-hexadecimal character on either side of the delimiter
C10_MalformedRejected ==
  (/\ impl = "PNP"
   /\ dec.called
   /\ NoDelimiter(Utf8Decode(dec.in)) \/ NonHexSide(Utf8Decode(dec.in)))
  => ~dec.out.ok

\* ------------------------------------------------------------------------
\* Claims about close(), the debug flag and pending calls (checked under Spec)
\* ------------------------------------------------------------------------
EverConnected == \E n \in 1..Len(connects) : connects[n] = "resolved"

\* C11: idempotent close: close() raises nothing, and a close() after a
\* close(), or before any successful connect, leaves the connection as it was
C11_IdempotentClose ==
  [][(Close /\ (ended \/ ~EverConnected)) => UNCHANGED <<sock, ended>>]_vars

Handlers(mode) ==
  <<ConnectCallback(mode), ConnectErrorListener(mode), SendCallback(mode, FALSE),
    SendCallback(mode, TRUE), ReceiveDataListener(mode), ReceiveErrorListener(mode)>>

C13_PendingReceive ==
  [][(\E i \in CallIds : calls[i].pc = "receiving" /\ calls'[i].pc # "receiving")
       => (SocketError \/ \E kind \in PeerKinds : Data(kind))]_vars

\* a call is still waiting in receive() after close() was called and the
\* peer has closed the connection without an answer
C13_Witness ==
  /\ ended /\ sock = "closed"
  /\ replied = Len(peerIn)
  /\ \E i \in CallIds : calls[i].pc = "receiving" /\ calls[i].sendOk

\* ------------------------------------------------------------------------
\* Claims about two instances (checked under SpecPair)
\* ------------------------------------------------------------------------
PendingReceives(cs) == {j \in 1..Len(cs) : cs[j].pc = "receiving"}

\* C14: per-instance isolation: a call on one instance, or an event of its
\* socket, leaves the second instance's connection state, key, listeners and
\* pending receives as they are; a chunk on one socket settles no receive of
\* the second instance
C14_Isolation ==
  [][~Switch =>
       /\ other'.sock = other.sock /\ other'.ended = other.ended
       /\ other'.key = other.key /\ other'.civ = other.civ
       /\ other'.dataListeners = other.dataListeners
       /\ other'.errorListeners = other.errorListeners
       /\ other'.connects = other.connects
       /\ other'.calls = other.calls
       /\ PendingReceives(other'.calls) = PendingReceives(other.calls)]_vars

\* one instance has got a chunk and returned a response while the second
\* instance, with another key, is still waiting in receive() on its own
\* connected socket
C14_Witness ==
  /\ key # other.key
  /\ \E i \in CallIds : calls[i].pc = "resolved" /\ calls[i].replyTo = i
  /\ other.sock = "connected"
  /\ PendingReceives(other.calls) # {}
  /\ other.dataListeners # {}

\* ------------------------------------------------------------------------
\* Claims about the request document (checked under SpecOrder)
\* ------------------------------------------------------------------------
\* the document that was encrypted for a call
Document(c) == Decrypt(impl, key, civ, c.wire).val

Canonical(request) ==
  PNPRequest(Get(request, StrMethod).s, Get(request, StrPath).s, Get(request, StrBody).s)

SameFields(r1, r2) ==
  \A name \in {StrMethod, StrPath, StrHeaders, StrBody} : Get(r1, name) = Get(r2, name)

\* C15: canonical serialization: the document sendRequest encrypts lists the
\* fields in the order method, path, headers, body whatever order the caller
\* assigned them in, and requests with equal field values give one document
C15_CanonicalSerialization ==
  /\ \A i \in CallIds : Document(calls[i]) = JSON_stringify(Canonical(calls[i].req))
  /\ \A i, j \in CallIds :
       SameFields(calls[i].req, calls[j].req) => Document(calls[i]) = Document(calls[j])

\* ------------------------------------------------------------------------
\* The Status enumeration (the same table in both files)
\* ------------------------------------------------------------------------
Status ==
  [Continue |-> 100, SwitchingProtocols |-> 101, Processing |-> 102,
   EarlyHints |-> 103, OK |-> 200, Created |-> 201, Accepted |-> 202,
   NonAuthoritativeInformation |-> 203, NoContent |-> 204,
   ResetContent |-> 205, PartialContent |-> 206, MultiStatus |-> 207,
   AlreadyReported |-> 208, IMUsed |-> 226, MultipleChoices |-> 300,
   MovedPermanently |-> 301, Found |-> 302, SeeOther |-> 303,
   NotModified |-> 304, UseProxy |-> 305, TemporaryRedirect |-> 307,
   PermanentRedirect |-> 308, BadRequest |-> 400, Unauthorized |-> 401,
   PaymentRequired |-> 402, Forbidden |-> 403, NotFound |-> 404,
   MethodNotAllowed |-> 405, NotAcceptable |-> 406,
   ProxyAuthenticationRequired |-> 407, RequestTimeout |-> 408,
   Conflict |-> 409, Gone |-> 410, LengthRequired |-> 411,
   PreconditionFailed |-> 412, PayloadTooLarge |-> 413, URITooLong |-> 414,
   UnsupportedMediaType |-> 415, RangeNotSatisfiable |-> 416,
   ExpectationFailed |-> 417, ImATeapot |-> 418, MisdirectedRequest |-> 421,
   UnprocessableEntity |-> 422, Locked |-> 423, FailedDependency |-> 424,
   TooEarly |-> 425, UpgradeRequired |-> 426, PreconditionRequired |-> 428,
   TooManyRequests |-> 429, RequestHeaderFieldsTooLarge |-> 431,
   UnavailableForLegalReasons |-> 451, InternalServerError |-> 500,
   NotImplemented |-> 501, BadGateway |-> 502, ServiceUnavailable |-> 503,
   GatewayTimeout |-> 504, HTTPVersionNotSupported |-> 505,
   VariantAlsoNegotiates |-> 506, InsufficientStorage |-> 507,
   LoopDetected |-> 508, NotExtended |-> 510,
   NetworkAuthenticationRequired |-> 511]

\* the members declared under the comments 1xx, 2xx, 3xx, 4xx, 5xx, in order
StatusGroups ==
  <<{"Continue", "SwitchingProtocols", "Processing", "EarlyHints"},
    {"OK", "Created", "Accepted", "NonAuthoritativeInformation", "NoContent",
     "ResetContent", "PartialContent", "MultiStatus", "AlreadyReported",
     "IMUsed"},
    {"MultipleChoices", "MovedPermanently", "Found", "SeeOther",
     "NotModified", "UseProxy", "TemporaryRedirect", "PermanentRedirect"},
    {"BadRequest", "Unauthorized", "PaymentRequired", "Forbidden",
     "NotFound", "MethodNotAllowed", "NotAcceptable",
     "ProxyAuthenticationRequired", "RequestTimeout", "Conflict", "Gone",
     "LengthRequired", "PreconditionFailed", "PayloadTooLarge", "URITooLong",
     "UnsupportedMediaType", "RangeNotSatisfiable", "ExpectationFailed",
     "ImATeapot", "MisdirectedRequest", "UnprocessableEntity", "Locked",
     "FailedDependency", "TooEarly", "UpgradeRequired",
     "PreconditionRequired", "TooManyRequests",
     "RequestHeaderFieldsTooLarge", "UnavailableForLegalReasons"},
    {"InternalServerError", "NotImplemented", "BadGateway",
     "ServiceUnavailable", "GatewayTimeout", "HTTPVersionNotSupported",
     "VariantAlsoNegotiates", "InsufficientStorage", "LoopDetected",
     "NotExtended", "NetworkAuthenticationRequired"}>>

StatusNames == DOMAIN Status

\* a table in which ImATeapot has the value of ExpectationFailed
StatusOf_teapot(name) == IF name = "ImATeapot" THEN Status.ExpectationFailed ELSE Status[name]

\* Status.<name>
StatusOf(name) == Status[name]

\* the members whose value is the status of a response
NamesOf(response) == {n \in StatusNames : JNum(StatusOf(n)) = Get(response, StrStatus)}

\* C16: status table integrity: the values are pairwise distinct integers in
\* 100..511, each in the class of the group it is declared in, OK is 200 and
\* NotFound is 404; so the status of a response a call returned names at
\* most one member
C16_StatusTable ==
  /\ \A i \in CallIds : Cardinality(NamesOf(calls[i].result)) <= 1
  /\ \A n, m \in StatusNames : n # m => StatusOf(n) # StatusOf(m)
  /\ \A n \in StatusNames : StatusOf(n) \in 100..511
  /\ UNION {StatusGroups[g] : g \in 1..Len(StatusGroups)} = StatusNames
  /\ \A g \in 1..Len(StatusGroups) : \A n \in StatusGroups[g] : StatusOf(n) \div 100 = g
  /\ StatusOf("OK") = 200
  /\ StatusOf("NotFound") = 404

\* the table has its 62 members in five groups, and a call has returned a
\* response whose status is the member OK
C16_Witness ==
  /\ Cardinality(StatusNames) = 62 /\ Len(StatusGroups) = 5
  /\ \E i \in CallIds :
       /\ calls[i].pc = "resolved"
       /\ Get(calls[i].result, StrStatus) = JNum(StatusOf("OK"))

\* ------------------------------------------------------------------------
\* Claims about handlers and listeners (checked under Spec)
\* ------------------------------------------------------------------------
\* the call that registered a listener has been settled
ListenerSettled(l) ==
  IF l.kind = "connect" THEN connects[l.id] # "pending"
  ELSE PromiseSettled(calls[l.id])

\* a step that is a 'data' event
DataStep == replied' = replied + 1 /\ sock' = sock /\ \E kind \in PeerKinds : Data(kind)

\* C17: single settlement: a socket event runs no handler of a call that has
\* been settled: an 'error' event runs the error listener of no settled
\* connect or receive, and a 'data' event the data listener of no settled
\* receive
C17_SingleSettlement ==
  [][/\ SocketError => \A n \in ErrorTargets : ~ListenerSettled(errorListeners[n])
     /\ DataStep => \A j \in DataTargets : ~PromiseSettled(calls[j])]_vars

\* C18: one chunk settles every receive pending at that moment: all the
\* calls waiting in receive() leave it with that same chunk, all the data
\* listeners are removed, and a chunk that arrives when no data listener is
\* registered changes no call
C18_ChunkSettlesAll ==
  [][DataStep =>
       /\ \A j, k \in PendingReceives(calls) :
            /\ calls'[j].pc # "receiving"
            /\ calls'[j].chunk # <<>>
            /\ calls'[j].chunk = calls'[k].chunk
       /\ dataListeners' = {}
       /\ dataListeners = {} => calls' = calls]_vars

\* two calls have left receive() with one chunk, and the second chunk of the
\* peer has arrived after that with no listener registered
C18_Witness ==
  /\ Len(calls) = 2 /\ Len(peerIn) = 2 /\ replied = 2
  /\ calls[1].chunk # <<>> /\ calls[1].chunk = calls[2].chunk
  /\ calls[1].replyTo = calls[2].replyTo
  /\ \A i \in CallIds : calls[i].pc \in {"resolved", "rejected"} /\ calls[i].err # "receive"
  /\ dataListeners = {}

ReceivesStarted == {i \in CallIds : Count("receive", calls[i].trace) = 1}

\* an 'error' event has run the listener: the call that registered it is
\* settled afterwards, rejected if it was pending
ErrorListenerRan(l) ==
  IF l.kind = "connect"
  THEN connects'[l.id] = (IF connects[l.id] = "pending" THEN "rejected" ELSE connects[l.id])
  ELSE /\ PromiseSettled(calls'[l.id])
       /\ ~PromiseSettled(calls[l.id]) => calls'[l.id].err = "receive"

\* C19: listener bookkeeping: the socket has one error listener per connect()
\* call and per receive() call started so far; no step (no settlement, no
\* close()) removes an error listener; a data listener is removed when it
\* runs; and one socket error runs all the error listeners
C19_ListenerBookkeeping ==
  /\ [](Len(errorListeners) = Len(connects) + Cardinality(ReceivesStarted))
  /\ [][/\ Len(errorListeners') >= Len(errorListeners)
        /\ Take(errorListeners', Len(errorListeners)) = errorListeners
        /\ DataStep => dataListeners' \cap DataTargets = {}
        /\ SocketError =>
             \A n \in 1..Len(errorListeners) : ErrorListenerRan(errorListeners[n])]_vars

\* after two connect() calls, two receive() calls, their chunk, a close() and
\* a socket error, the socket has four error listeners and no data listener
C19_Witness ==
  /\ Len(connects) = 2 /\ Cardinality(ReceivesStarted) = 2
  /\ Len(errorListeners) = 4
  /\ dataListeners = {}
  /\ ended /\ sock = "closed"
  /\ \E i \in CallIds : calls[i].err = "receive"

=============================================================================
